---- MODULE Spec2Model ----
(***************************************************************************)
(* Vayu backend: the time-windowed aggregation and retention engine.       *)
(*                                                                         *)
(* The store holds three tables (sensor_readings, hourly_aggregates,       *)
(* daily_aggregates).  Callers of the aggregate builder are the manual     *)
(* aggregation endpoint (one coroutine per HTTP request) and the backfill  *)
(* script; the retention sweeper is crud.cleanup_old_data; the scheduler   *)
(* is main.run_background_tasks, started and cancelled by main.lifespan.   *)
(* Every await on the store (execute, commit) is one atomic step; the      *)
(* local code between two awaits belongs to the step that follows it.      *)
(* Time is in seconds since a midnight (UTC).                              *)
(***************************************************************************)
EXTENDS Integers, Sequences, FiniteSets, TLC

(***************************************************************************)
(* Program constants.                                                      *)
(***************************************************************************)
HOUR == 3600
DAY == 86400
SLEEP_INTERVAL == 3600
RAW_DATA_RETENTION_DAYS == 1
HOURLY_DATA_RETENTION_DAYS == 7
DAILY_DATA_RETENTION_DAYS == 14

(***************************************************************************)
(* Bounds of the model.                                                    *)
(***************************************************************************)
\* readings ingested in one run
MaxReadings == 2
\* hour buckets one backfill run may have to walk
MaxBackfillHours == 3
\* store operations (requests, backfill run, sweep) in flight at once in Spec
MaxInFlight == 2
\* readings ingested in one run where the statistics of a window are examined
MaxStatsReadings == 3
\* bits of the significand of a Float (a double has 53)
MantissaBits == 6

(***************************************************************************)
(* Float columns and SQL arithmetic.  A Float is a binary floating point   *)
(* number with MantissaBits significant bits; it is written here as the    *)
(* whole number of Ulps it holds, so that every Float from 1 upwards has   *)
(* its full significand.  Sums and quotients round to nearest, ties to     *)
(* even, as IEEE 754 arithmetic does.                                      *)
(***************************************************************************)
Ulp == 2 ^ (MantissaBits - 1)
\* The Float of a whole number x of units (degrees, percent, volts).
Float(x) == x * Ulp

\* The exponent at which the quotient a / b has MantissaBits significant bits.
Exponent(a, b) ==
    CHOOSE e \in 0 .. 24 :
        /\ a < b * 2 ^ (MantissaBits + e)
        /\ (e = 0 \/ a >= b * 2 ^ (MantissaBits + e - 1))

\* a / b rounded to a Float.
RoundRatio(a, b) ==
    LET e == Exponent(a, b)
        d == b * 2 ^ e
        q == a \div d
        r == a % d
        m == IF 2 * r > d \/ (2 * r = d /\ q % 2 = 1) THEN q + 1 ELSE q
    IN m * 2 ^ e

\* x + y and x / n on Floats.
FloatAdd(x, y) == RoundRatio(x + y, 1)
FloatDiv(x, n) == RoundRatio(x, n)

\* The instants the clock is observed at: around the midnight between day 0
\* and day 1, one day later, and past the hourly and the daily retention.
Instants ==
    { DAY - 1800, DAY + 1800, 2 * DAY + 1800, 15 * DAY }
\* The same without the instant one day later.
CoarseInstants ==
    { DAY - 1800, DAY + 1800, 15 * DAY }
\* Two instants of the last hour of day 0, and the second of them one day
\* later.
LateInstants ==
    { DAY - 1800, DAY - 900, 2 * DAY - 900 }
\* The midnight between day 0 and day 1, which starts an hour and a day,
\* and half an hour before and after it.
BoundaryInstants ==
    { DAY - 1800, DAY, DAY + 1800 }
StartTime == DAY - 1800

\* The validated sensor samples the ingestion endpoint is handed.
Samples ==
    { [temperature |-> Float(20), humidity |-> Float(50),
       air_quality_voltage |-> Float(1), air_quality_level |-> "Good"],
      [temperature |-> Float(24), humidity |-> Float(40),
       air_quality_voltage |-> Float(3), air_quality_level |-> "Poor"] }
\* Samples for the statistics of a window: three temperatures, two of the
\* samples with the same humidity.
StatsSamples ==
    { [temperature |-> Float(20), humidity |-> Float(50),
       air_quality_voltage |-> Float(1), air_quality_level |-> "Good"],
      [temperature |-> Float(22), humidity |-> Float(50),
       air_quality_voltage |-> Float(2), air_quality_level |-> "Moderate"],
      [temperature |-> Float(24), humidity |-> Float(40),
       air_quality_voltage |-> Float(3), air_quality_level |-> "Poor"] }
\* One of them, where the values of a reading play no part.
OneSample ==
    { [temperature |-> Float(20), humidity |-> Float(50),
       air_quality_voltage |-> Float(1), air_quality_level |-> "Good"] }

Reqs == {"m1", "m2"}
Callers == Reqs \cup {"bf"}
Tiers == {"hourly", "daily"}

VARIABLES
    now,            \* datetime.utcnow()
    readings,       \* table sensor_readings
    ingested,       \* readings ingested so far
    ever_ingested,  \* history: every reading ingestion has stored
    swept_keys,     \* history: per tier, the window keys sweeps have deleted
    hourly,         \* table hourly_aggregates
    daily,          \* table daily_aggregates
    bpc,            \* per caller: position inside create_*_aggregate
    btier,          \* per caller: which builder is running
    bkey,           \* per caller: hour_start / day_start of the call
    bstats,         \* per caller: the row of the statistics query
    bret,           \* per caller: the returned aggregate or None
    boutcome,       \* per caller: how the call ended
    mpc,            \* per request: position in run_manual_aggregation
    mnow,           \* per request: its local now
    hourly_result,  \* per request
    daily_result,   \* per request
    response,       \* per request: the HTTP response
    fpc,            \* backfill: position in create_all_aggregates
    oldest_time, newest_time, current, end_bucket,
    hourly_created, hourly_skipped, daily_created, daily_skipped,
    spc,            \* sweep: position in cleanup_old_data
    snow,           \* sweep: its local now
    sattempted,     \* sweep: tiers whose delete has been executed
    sdeleted,       \* sweep: rowcount per tier
    background_tasks_running,
    task,           \* the asyncio task of run_background_tasks
    cancel_requested,
    wake_at,        \* when the pending asyncio.sleep elapses
    cycle_at,       \* when the latest scheduler cycle started
    cycle_trace,    \* crud calls issued by the latest cycle
    lifespan_state, \* "serving" | "shutdown"
    stats_response  \* the latest response of GET /statistics

store == <<readings, hourly, daily>>
bvars == <<bpc, btier, bkey, bstats, bret, boutcome>>
mvars == <<mpc, mnow, hourly_result, daily_result, response>>
fvars == <<fpc, oldest_time, newest_time, current, end_bucket,
           hourly_created, hourly_skipped, daily_created, daily_skipped>>
svars == <<spc, snow, sattempted, sdeleted>>
tvars == <<background_tasks_running, task, cancel_requested, wake_at,
           cycle_at, cycle_trace, lifespan_state>>
vars == <<now, ingested, ever_ingested, swept_keys, store, bvars, mvars, fvars, svars, tvars,
         stats_response>>

\* Python's None for a row, an empty statistics row, and a missing timestamp.
None == [id |-> 0]
NoStats == [count |-> 0]
NoTime == 0
\* No response of GET /statistics yet.
NoResponse == [status |-> 0]

(***************************************************************************)
(* Helpers on time and sets.                                               *)
(***************************************************************************)
\* Faulty variant: a caller that hands the builder an instant as it is.
FloorHourNone(t) == t

\* t.replace(minute=0, second=0, microsecond=0)
FloorHour(t) == t - (t % HOUR)

FloorDay(t) == t - (t % DAY)

\* SQL sum() as avg() runs it: the rows are visited in rowid order and each
\* value is added to a running Float.
RECURSIVE SumOf(_, _)
SumOf(S, f) ==
    IF S = {} THEN 0
    ELSE LET x == CHOOSE y \in S : \A z \in S : z.id <= y.id
         IN FloatAdd(SumOf(S \ {x}, f), x[f])

\* Faulty variant: min() that yields the largest value.
MinOfLargest(S, f) == CHOOSE v \in {x[f] : x \in S} : \A x \in S : v >= x[f]

MinOf(S, f) == CHOOSE v \in {x[f] : x \in S} : \A x \in S : v <= x[f]

MaxOf(S, f) == CHOOSE v \in {x[f] : x \in S} : \A x \in S : v >= x[f]

\* Faulty variant: every new row is given the rowid 1.
NextIdOne(table) == 1

\* SQLite INTEGER PRIMARY KEY without AUTOINCREMENT: largest rowid + 1.
NextId(table) ==
    IF table = {} THEN 1
    ELSE 1 + (CHOOSE m \in {x.id : x \in table} : \A x \in table : m >= x.id)

WindowLen(tier) == IF tier = "hourly" THEN HOUR ELSE DAY

\* Faulty variant: the hour the clock is in, not the one before it.
PrevHourCurrent(t) == FloorHour(t)

\* now.replace(minute=0, second=0, microsecond=0) - timedelta(hours=1)
PrevHour(t) == FloorHour(t) - HOUR

\* (now - timedelta(days=1)).replace(hour=0, minute=0, second=0, microsecond=0)
Yesterday(t) == FloorDay(t - DAY)
\* now.hour
HourOfDay(t) == (t % DAY) \div HOUR
\* create_daily_aggregate: day_start = date.replace(hour=0, ...)
DayStart(date) == FloorDay(date)

(***************************************************************************)
(* The store: queries and rows.                                            *)
(***************************************************************************)
Table(tier) == IF tier = "hourly" THEN hourly ELSE daily

\* The window key column: hourly_aggregates.hour_start, daily_aggregates.date.
KeyOf(tier, a) == IF tier = "hourly" THEN a.hour_start ELSE a.date

\* Faulty variant: the statistics query without its WHERE clause.
InWindowAny(ts, lo, hi) == TRUE

\* Faulty variant: the window with its end included.
InWindowClosed(ts, lo, hi) == ts >= lo /\ ts <= hi

\* WHERE timestamp >= window_start AND timestamp < window_end
InWindow(ts, lo, hi) == ts >= lo /\ ts < hi

\* The statistics query of create_hourly_aggregate / create_daily_aggregate
\* over the readings rs.  avg() is the running sum divided by the count.
StatsQuery(rs, lo, hi) ==
    LET W == {r \in rs : InWindow(r.timestamp, lo, hi)}
        n == Cardinality(W)
    IN IF W = {} THEN NoStats
       ELSE [count |-> n,
             temp_avg |-> FloatDiv(SumOf(W, "temperature"), n),
             temp_min |-> MinOf(W, "temperature"),
             temp_max |-> MaxOf(W, "temperature"),
             humidity_avg |-> FloatDiv(SumOf(W, "humidity"), n),
             humidity_min |-> MinOf(W, "humidity"),
             humidity_max |-> MaxOf(W, "humidity"),
             aq_avg |-> FloatDiv(SumOf(W, "air_quality_voltage"), n),
             aq_min |-> MinOf(W, "air_quality_voltage"),
             aq_max |-> MaxOf(W, "air_quality_voltage")]

\* Faulty variant: the builder takes every window for populated.
HasReadingsAlways(stats) == TRUE

\* if stats and stats.count > 0
HasReadings(stats) == stats.count > 0

\* Faulty variant: the existence check never finds a row.
RowExistsNever(table, tier, key) == FALSE

\* select(Aggregate).where(key == window_start) ... scalar_one_or_none()
RowExists(table, tier, key) == \E a \in table : KeyOf(tier, a) = key

\* Faulty variant: the window key column without its unique constraint.
UniqueViolationNever(table, tier, key) == FALSE

\* Column(DateTime, nullable=False, unique=True): the commit of a second row
\* with the same window key raises IntegrityError.
UniqueViolation(table, tier, key) == \E a \in table : KeyOf(tier, a) = key

\* Faulty variant: the aggregate is built without the count of its readings.
NewAggregateZeroCount(tier, table, key, stats, t) ==
    (IF tier = "hourly" THEN "hour_start" :> key ELSE "date" :> key)
    @@ [id |-> NextId(table),
        temp_avg |-> stats.temp_avg, temp_min |-> stats.temp_min,
        temp_max |-> stats.temp_max,
        humidity_avg |-> stats.humidity_avg,
        humidity_min |-> stats.humidity_min,
        humidity_max |-> stats.humidity_max,
        aq_voltage_avg |-> stats.aq_avg, aq_voltage_min |-> stats.aq_min,
        aq_voltage_max |-> stats.aq_max,
        reading_count |-> 0, created_at |-> t]

\* HourlyAggregate(...) / DailyAggregate(...) as built from the statistics.
NewAggregate(tier, table, key, stats, t) ==
    IF tier = "hourly"
    THEN [id |-> NextId(table), hour_start |-> key,
          temp_avg |-> stats.temp_avg, temp_min |-> stats.temp_min,
          temp_max |-> stats.temp_max,
          humidity_avg |-> stats.humidity_avg,
          humidity_min |-> stats.humidity_min,
          humidity_max |-> stats.humidity_max,
          aq_voltage_avg |-> stats.aq_avg, aq_voltage_min |-> stats.aq_min,
          aq_voltage_max |-> stats.aq_max,
          reading_count |-> stats.count, created_at |-> t]
    ELSE [id |-> NextId(table), date |-> key,
          temp_avg |-> stats.temp_avg, temp_min |-> stats.temp_min,
          temp_max |-> stats.temp_max,
          humidity_avg |-> stats.humidity_avg,
          humidity_min |-> stats.humidity_min,
          humidity_max |-> stats.humidity_max,
          aq_voltage_avg |-> stats.aq_avg, aq_voltage_min |-> stats.aq_min,
          aq_voltage_max |-> stats.aq_max,
          reading_count |-> stats.count, created_at |-> t]

(***************************************************************************)
(* Initial state: lifespan has run init_db and created the scheduler task, *)
(* which has not run yet; the tables are empty.                            *)
(***************************************************************************)
Init ==
    /\ now = StartTime
    /\ readings = {} /\ hourly = {} /\ daily = {}
    /\ ingested = 0
    /\ ever_ingested = {}
    /\ swept_keys = [hourly |-> {}, daily |-> {}]
    /\ bpc = [c \in Callers |-> "none"]
    /\ btier = [c \in Callers |-> "hourly"]
    /\ bkey = [c \in Callers |-> NoTime]
    /\ bstats = [c \in Callers |-> NoStats]
    /\ bret = [c \in Callers |-> None]
    /\ boutcome = [c \in Callers |-> "none"]
    /\ mpc = [r \in Reqs |-> "idle"]
    /\ mnow = [r \in Reqs |-> NoTime]
    /\ hourly_result = [r \in Reqs |-> None]
    /\ daily_result = [r \in Reqs |-> None]
    /\ response = [r \in Reqs |-> "none"]
    /\ fpc = "idle"
    /\ oldest_time = NoTime /\ newest_time = NoTime
    /\ current = NoTime /\ end_bucket = NoTime
    /\ hourly_created = 0 /\ hourly_skipped = 0
    /\ daily_created = 0 /\ daily_skipped = 0
    /\ spc = "idle" /\ snow = NoTime
    /\ sattempted = {}
    /\ sdeleted = [raw |-> 0, hourly |-> 0, daily |-> 0]
    /\ background_tasks_running = FALSE
    /\ task = "created"
    /\ cancel_requested = FALSE
    /\ wake_at = NoTime
    /\ cycle_at = NoTime
    /\ cycle_trace = << >>
    /\ lifespan_state = "serving"
    /\ stats_response = NoResponse

(***************************************************************************)
(* The clock.                                                              *)
(***************************************************************************)
Tick(T) ==
    /\ \E t \in T : t > now /\ now' = t
    /\ UNCHANGED <<ingested, ever_ingested, stats_response, swept_keys, store, bvars, mvars, fvars, svars, tvars>>

(***************************************************************************)
(* Ingestion: crud.create_sensor_reading.                                  *)
(***************************************************************************)
Ingest(S, cap) ==
    /\ lifespan_state = "serving"
    /\ ingested < cap
    /\ ingested' = ingested + 1
    /\ \E data \in S :
         LET reading == [id |-> NextId(readings),
                         temperature |-> data.temperature,
                         humidity |-> data.humidity,
                         air_quality_voltage |-> data.air_quality_voltage,
                         air_quality_level |-> data.air_quality_level,
                         timestamp |-> now]
         IN /\ readings' = readings \cup {reading}
            /\ ever_ingested' = ever_ingested \cup {reading}
    /\ UNCHANGED <<now, stats_response, swept_keys, hourly, daily, bvars, mvars, fvars, svars, tvars>>

(***************************************************************************)
(* The aggregate builder, create_hourly_aggregate and                      *)
(* create_daily_aggregate, as run by caller c: the statistics query, the   *)
(* existence check, the insert and commit.                                 *)
(***************************************************************************)
\* The frame of a call that has just been entered.
Enter(c, tier, key) ==
    /\ bpc' = [bpc EXCEPT ![c] = "stats"]
    /\ btier' = [btier EXCEPT ![c] = tier]
    /\ bkey' = [bkey EXCEPT ![c] = key]
    /\ bstats' = [bstats EXCEPT ![c] = NoStats]
    /\ bret' = [bret EXCEPT ![c] = None]
    /\ boutcome' = [boutcome EXCEPT ![c] = "none"]

\* The frame once the caller has taken the result.
Leave(c) ==
    /\ bpc' = [bpc EXCEPT ![c] = "none"]
    /\ btier' = [btier EXCEPT ![c] = "hourly"]
    /\ bkey' = [bkey EXCEPT ![c] = NoTime]
    /\ bstats' = [bstats EXCEPT ![c] = NoStats]
    /\ bret' = [bret EXCEPT ![c] = None]
    /\ boutcome' = [boutcome EXCEPT ![c] = "none"]

BuilderStats(c) ==
    /\ bpc[c] = "stats"
    /\ LET st == StatsQuery(readings, bkey[c], bkey[c] + WindowLen(btier[c]))
       IN /\ bstats' = [bstats EXCEPT ![c] = st]
          /\ IF HasReadings(st)
             THEN /\ bpc' = [bpc EXCEPT ![c] = "check"]
                  /\ UNCHANGED <<bret, boutcome>>
             ELSE /\ bpc' = [bpc EXCEPT ![c] = "returned"]
                  /\ bret' = [bret EXCEPT ![c] = None]
                  /\ boutcome' = [boutcome EXCEPT ![c] = "Empty"]
    /\ UNCHANGED <<now, stats_response, swept_keys, ingested, ever_ingested, store, btier, bkey, mvars, fvars, svars, tvars>>

BuilderCheck(c) ==
    /\ bpc[c] = "check"
    /\ IF RowExists(Table(btier[c]), btier[c], bkey[c])
       THEN /\ bpc' = [bpc EXCEPT ![c] = "returned"]
            /\ bret' = [bret EXCEPT ![c] = None]
            /\ boutcome' = [boutcome EXCEPT ![c] = "AlreadyExists"]
       ELSE /\ bpc' = [bpc EXCEPT ![c] = "insert"]
            /\ UNCHANGED <<bret, boutcome>>
    /\ UNCHANGED <<now, stats_response, swept_keys, ingested, ever_ingested, store, btier, bkey, bstats, mvars, fvars, svars, tvars>>

BuilderInsert(c) ==
    /\ bpc[c] = "insert"
    /\ IF UniqueViolation(Table(btier[c]), btier[c], bkey[c])
       THEN /\ bpc' = [bpc EXCEPT ![c] = "raised"]
            /\ boutcome' = [boutcome EXCEPT ![c] = "IntegrityError"]
            /\ UNCHANGED <<hourly, daily, bret>>
       ELSE LET row == NewAggregate(btier[c], Table(btier[c]), bkey[c],
                                    bstats[c], now)
            IN /\ IF btier[c] = "hourly"
                  THEN hourly' = hourly \cup {row} /\ UNCHANGED daily
                  ELSE daily' = daily \cup {row} /\ UNCHANGED hourly
               /\ bpc' = [bpc EXCEPT ![c] = "refresh"]
               /\ bret' = [bret EXCEPT ![c] = row]
               /\ boutcome' = [boutcome EXCEPT ![c] = "Created"]
    /\ UNCHANGED <<now, stats_response, swept_keys, ingested, ever_ingested, readings, btier, bkey, bstats, mvars, fvars,
                   svars, tvars>>

\* await db.refresh(aggregate): the row is read back by its primary key;
\* refresh raises InvalidRequestError when the row is gone.
BuilderRefresh(c) ==
    /\ bpc[c] = "refresh"
    /\ IF bret[c] \in Table(btier[c])
       THEN /\ bpc' = [bpc EXCEPT ![c] = "returned"]
            /\ UNCHANGED <<bret, boutcome>>
       ELSE /\ bpc' = [bpc EXCEPT ![c] = "raised"]
            /\ bret' = [bret EXCEPT ![c] = None]
            /\ boutcome' = [boutcome EXCEPT ![c] = "InvalidRequestError"]
    /\ UNCHANGED <<now, stats_response, swept_keys, ingested, ever_ingested, store, btier, bkey, bstats, mvars, fvars,
                   svars, tvars>>

\* A faulty variant: a failing statement takes the committed rows with it, as
\* if a whole run were one transaction.
DurableNone(table) == {}

\* The rows of a table that outlast a failing statement: every row was
\* committed by the call that added it (db.add, await db.commit), so all of
\* them.
Durable(table) == table

\* A store failure inside a builder call: one of its awaited statements (the
\* statistics query, the existence check, the commit, the refresh) raises.
\* Nothing in the builder catches it; a failing commit stores no row, a
\* failing refresh comes after the commit and leaves the new row stored.
BuilderStoreFailure(c) ==
    /\ bpc[c] \in {"stats", "check", "insert", "refresh"}
    /\ bpc' = [bpc EXCEPT ![c] = "raised"]
    /\ bret' = [bret EXCEPT ![c] = None]
    /\ boutcome' = [boutcome EXCEPT ![c] = "OperationalError"]
    /\ hourly' = Durable(hourly)
    /\ daily' = Durable(daily)
    /\ UNCHANGED <<now, stats_response, swept_keys, ingested, ever_ingested,
                   readings, btier, bkey, bstats, mvars, fvars, svars, tvars>>

(***************************************************************************)
(* The manual aggregation endpoint, main.run_manual_aggregation, one       *)
(* coroutine per request r.                                                *)
(***************************************************************************)
\* 'created' if result else 'already exists'
Label(result) == IF result # None THEN "created" ELSE "already exists"

ManualStart(r) ==
    /\ lifespan_state = "serving"
    /\ mpc[r] = "idle"
    /\ mnow' = [mnow EXCEPT ![r] = now]
    /\ mpc' = [mpc EXCEPT ![r] = "hourly"]
    /\ Enter(r, "hourly", PrevHour(now))
    /\ UNCHANGED <<now, stats_response, swept_keys, ingested, ever_ingested, store, hourly_result, daily_result, response,
                   fvars, svars, tvars>>

ManualHourlyReturn(r) ==
    /\ mpc[r] = "hourly"
    /\ bpc[r] = "returned"
    /\ hourly_result' = [hourly_result EXCEPT ![r] = bret[r]]
    /\ mpc' = [mpc EXCEPT ![r] = "daily"]
    /\ Enter(r, "daily", DayStart(Yesterday(mnow[r])))
    /\ UNCHANGED <<now, stats_response, swept_keys, ingested, ever_ingested, store, mnow, daily_result, response, fvars, svars, tvars>>

ManualDailyReturn(r) ==
    /\ mpc[r] = "daily"
    /\ bpc[r] = "returned"
    /\ daily_result' = [daily_result EXCEPT ![r] = bret[r]]
    /\ response' = [response EXCEPT ![r] =
                      [status |-> 200,
                       hourly |-> Label(hourly_result[r]),
                       daily |-> Label(bret[r])]]
    /\ mpc' = [mpc EXCEPT ![r] = "responded"]
    /\ Leave(r)
    /\ UNCHANGED <<now, stats_response, swept_keys, ingested, ever_ingested, store, mnow, hourly_result, fvars, svars, tvars>>

\* except Exception: raise HTTPException(status_code=500)
ManualError(r) ==
    /\ mpc[r] \in {"hourly", "daily"}
    /\ bpc[r] = "raised"
    /\ response' = [response EXCEPT ![r] = [status |-> 500]]
    /\ mpc' = [mpc EXCEPT ![r] = "responded"]
    /\ Leave(r)
    /\ UNCHANGED <<now, stats_response, swept_keys, ingested, ever_ingested, store, mnow, hourly_result, daily_result,
                   fvars, svars, tvars>>

\* The response is sent and get_db closes the session: the request is over.
ManualClose(r) ==
    /\ mpc[r] = "responded"
    /\ mpc' = [mpc EXCEPT ![r] = "idle"]
    /\ mnow' = [mnow EXCEPT ![r] = NoTime]
    /\ hourly_result' = [hourly_result EXCEPT ![r] = None]
    /\ daily_result' = [daily_result EXCEPT ![r] = None]
    /\ response' = [response EXCEPT ![r] = "none"]
    /\ UNCHANGED <<now, stats_response, swept_keys, ingested, ever_ingested, store, bvars, fvars, svars, tvars>>

(***************************************************************************)
(* The backfill script, create_aggregates.create_all_aggregates.           *)
(***************************************************************************)
\* SELECT timestamp ORDER BY timestamp ASC / DESC LIMIT 1, then scalar()
OldestOf(rs) ==
    IF rs = {} THEN NoTime
    ELSE CHOOSE t \in {r.timestamp : r \in rs} : \A r \in rs : t <= r.timestamp
NewestOf(rs) ==
    IF rs = {} THEN NoTime
    ELSE CHOOSE t \in {r.timestamp : r \in rs} : \A r \in rs : t >= r.timestamp

\* The number of hour boundaries from floor(a) to floor(b), both included.
HourBuckets(a, b) == ((FloorHour(b) - FloorHour(a)) \div HOUR) + 1
\* The number of day boundaries from floor(a) to floor(b), both included.
DayBuckets(a, b) == ((FloorDay(b) - FloorDay(a)) \div DAY) + 1

BackfillOldest ==
    /\ fpc = "idle"
    /\ readings # {} =>
         HourBuckets(OldestOf(readings), NewestOf(readings)) <= MaxBackfillHours
    /\ oldest_time' = OldestOf(readings)
    /\ fpc' = "newest"
    /\ UNCHANGED <<now, stats_response, swept_keys, ingested, ever_ingested, store, bvars, mvars, newest_time, current, end_bucket,
                   hourly_created, hourly_skipped, daily_created,
                   daily_skipped, svars, tvars>>

BackfillNewest ==
    /\ fpc = "newest"
    /\ LET newest == NewestOf(readings)
       IN /\ newest_time' = newest
          /\ IF oldest_time = NoTime \/ newest = NoTime
             THEN /\ fpc' = "done"
                  /\ UNCHANGED <<current, end_bucket, bvars>>
             ELSE /\ HourBuckets(oldest_time, newest) <= MaxBackfillHours
                  /\ current' = FloorHour(oldest_time)
                  /\ end_bucket' = FloorHour(newest)
                  /\ IF FloorHour(oldest_time) <= FloorHour(newest)
                     THEN /\ fpc' = "hourly"
                          /\ Enter("bf", "hourly", FloorHour(oldest_time))
                     ELSE /\ fpc' = "hourly_done"
                          /\ UNCHANGED bvars
    /\ UNCHANGED <<now, stats_response, swept_keys, ingested, ever_ingested, store, mvars, oldest_time, hourly_created,
                   hourly_skipped, daily_created, daily_skipped, svars, tvars>>

BackfillHourlyReturn ==
    /\ fpc = "hourly"
    /\ bpc["bf"] = "returned"
    /\ IF bret["bf"] # None
       THEN hourly_created' = hourly_created + 1 /\ UNCHANGED hourly_skipped
       ELSE hourly_skipped' = hourly_skipped + 1 /\ UNCHANGED hourly_created
    /\ current' = current + HOUR
    /\ IF current + HOUR <= end_bucket
       THEN /\ fpc' = "hourly"
            /\ Enter("bf", "hourly", current + HOUR)
       ELSE /\ fpc' = "hourly_done"
            /\ Leave("bf")
    /\ UNCHANGED <<now, stats_response, swept_keys, ingested, ever_ingested, store, mvars, oldest_time, newest_time, end_bucket,
                   daily_created, daily_skipped, svars, tvars>>

BackfillDailyStart ==
    /\ fpc = "hourly_done"
    /\ current' = FloorDay(oldest_time)
    /\ end_bucket' = FloorDay(newest_time)
    /\ IF FloorDay(oldest_time) <= FloorDay(newest_time)
       THEN /\ fpc' = "daily"
            /\ Enter("bf", "daily", DayStart(FloorDay(oldest_time)))
       ELSE /\ fpc' = "done"
            /\ UNCHANGED bvars
    /\ UNCHANGED <<now, stats_response, swept_keys, ingested, ever_ingested, store, mvars, oldest_time, newest_time,
                   hourly_created, hourly_skipped, daily_created,
                   daily_skipped, svars, tvars>>

BackfillDailyReturn ==
    /\ fpc = "daily"
    /\ bpc["bf"] = "returned"
    /\ IF bret["bf"] # None
       THEN daily_created' = daily_created + 1 /\ UNCHANGED daily_skipped
       ELSE daily_skipped' = daily_skipped + 1 /\ UNCHANGED daily_created
    /\ current' = current + DAY
    /\ IF current + DAY <= end_bucket
       THEN /\ fpc' = "daily"
            /\ Enter("bf", "daily", DayStart(current + DAY))
       ELSE /\ fpc' = "done"
            /\ Leave("bf")
    /\ UNCHANGED <<now, stats_response, swept_keys, ingested, ever_ingested, store, mvars, oldest_time, newest_time, end_bucket,
                   hourly_created, hourly_skipped, svars, tvars>>

\* An exception of a builder call is not caught: the script ends.
BackfillCrash ==
    /\ fpc \in {"hourly", "daily"}
    /\ bpc["bf"] = "raised"
    /\ fpc' = "crashed"
    /\ Leave("bf")
    /\ UNCHANGED <<now, stats_response, swept_keys, ingested, ever_ingested, store, mvars, oldest_time, newest_time, current,
                   end_bucket, hourly_created, hourly_skipped, daily_created,
                   daily_skipped, svars, tvars>>

\* The script's process ends (after its summary, or on the exception).
BackfillExit ==
    /\ fpc \in {"done", "crashed"}
    /\ fpc' = "idle"
    /\ oldest_time' = NoTime /\ newest_time' = NoTime
    /\ current' = NoTime /\ end_bucket' = NoTime
    /\ hourly_created' = 0 /\ hourly_skipped' = 0
    /\ daily_created' = 0 /\ daily_skipped' = 0
    /\ UNCHANGED <<now, stats_response, swept_keys, ingested, ever_ingested, store, bvars, mvars, svars, tvars>>

(***************************************************************************)
(* The retention sweeper, crud.cleanup_old_data: three deletes, each       *)
(* committed on its own.  A delete or its commit may raise (a store        *)
(* failure); nothing in cleanup_old_data catches it.                       *)
(***************************************************************************)
RawCutoff(t) == t - RAW_DATA_RETENTION_DAYS * DAY
HourlyCutoff(t) == t - HOURLY_DATA_RETENTION_DAYS * DAY
DailyCutoff(t) == t - DAILY_DATA_RETENTION_DAYS * DAY

\* Faulty variant: the raw delete leaves every reading where it is.
ExpiredReadingsNone(rs, cutoff) == {}

\* Faulty variant: the raw delete takes the reading at the cutoff as well.
ExpiredReadingsInclusive(rs, cutoff) == {r \in rs : r.timestamp <= cutoff}

\* DELETE ... WHERE timestamp < raw_cutoff: the rows the delete removes.
ExpiredReadings(rs, cutoff) == {r \in rs : r.timestamp < cutoff}

\* Faulty variant: the aggregate deletes match every row.
ExpiredRowsAll(tier, table, cutoff) == table

\* Faulty variant: the aggregate deletes match no row.
ExpiredRowsNone(tier, table, cutoff) == {}

\* DELETE ... WHERE hour_start < hourly_cutoff / date < daily_cutoff
ExpiredRows(tier, table, cutoff) == {a \in table : KeyOf(tier, a) < cutoff}

\* Where cleanup_old_data stands after the delete of a tier raised.
AfterDeleteError(tier) == "raised"

SweepRaw ==
    /\ spc = "idle"
    /\ snow' = now
    /\ sattempted' = {"raw"}
    /\ \E ok \in BOOLEAN :
         IF ok
         THEN LET gone == ExpiredReadings(readings, RawCutoff(now))
              IN /\ readings' = readings \ gone
                 /\ sdeleted' = [raw |-> Cardinality(gone), hourly |-> 0,
                                 daily |-> 0]
                 /\ spc' = "hourly"
         ELSE /\ spc' = AfterDeleteError("raw")
              /\ sdeleted' = [raw |-> 0, hourly |-> 0, daily |-> 0]
              /\ UNCHANGED readings
    /\ UNCHANGED <<now, stats_response, swept_keys, ingested, ever_ingested, hourly, daily, bvars, mvars, fvars, tvars>>

SweepHourly ==
    /\ spc = "hourly"
    /\ sattempted' = sattempted \cup {"hourly"}
    /\ \E ok \in BOOLEAN :
         IF ok
         THEN LET gone == ExpiredRows("hourly", hourly, HourlyCutoff(snow))
              IN /\ hourly' = hourly \ gone
                 /\ sdeleted' = [sdeleted EXCEPT !.hourly = Cardinality(gone)]
                 /\ swept_keys' =
                       [swept_keys EXCEPT
                          !.hourly = @ \cup {KeyOf("hourly", a) : a \in gone}]
                 /\ spc' = "daily"
         ELSE /\ spc' = AfterDeleteError("hourly")
              /\ UNCHANGED <<hourly, sdeleted, swept_keys>>
    /\ UNCHANGED <<now, stats_response, ingested, ever_ingested, readings, daily, snow,
                   bvars, mvars, fvars, tvars>>

SweepDaily ==
    /\ spc = "daily"
    /\ sattempted' = sattempted \cup {"daily"}
    /\ \E ok \in BOOLEAN :
         IF ok
         THEN LET gone == ExpiredRows("daily", daily, DailyCutoff(snow))
              IN /\ daily' = daily \ gone
                 /\ sdeleted' = [sdeleted EXCEPT !.daily = Cardinality(gone)]
                 /\ swept_keys' =
                       [swept_keys EXCEPT
                          !.daily = @ \cup {KeyOf("daily", a) : a \in gone}]
                 /\ spc' = "completed"
         ELSE /\ spc' = AfterDeleteError("daily")
              /\ UNCHANGED <<daily, sdeleted, swept_keys>>
    /\ UNCHANGED <<now, stats_response, ingested, ever_ingested, readings, hourly, snow,
                   bvars, mvars, fvars, tvars>>

\* What cleanup_old_data hands its caller once the three deletes are
\* committed: the function logs the rowcounts and has no return statement.
SweepResult(deleted) == None

\* cleanup_old_data has returned, or its exception has reached the caller.
SweepReturn ==
    /\ spc \in {"completed", "raised"}
    /\ spc' = "idle"
    /\ snow' = NoTime
    /\ sattempted' = {}
    /\ sdeleted' = [raw |-> 0, hourly |-> 0, daily |-> 0]
    /\ UNCHANGED <<now, stats_response, swept_keys, ingested, ever_ingested, store, bvars, mvars, fvars, tvars>>

(***************************************************************************)
(* The statistics endpoint, main.get_statistics, and crud.get_statistics.  *)
(***************************************************************************)
\* The values of the query parameter 'hours' (ge=1, le=336) asked with.
StatsHours == {1, 336}

\* Faulty variant: the period without its end.
InPeriodHalfOpen(ts, start_time, end_time) == ts >= start_time /\ ts < end_time

\* WHERE timestamp >= start_time AND timestamp <= end_time
InPeriod(ts, start_time, end_time) == ts >= start_time /\ ts <= end_time

\* round(float(x), digits): the decimal with that many digits nearest to x
\* (ties to even), as the Float nearest to it.
Round(x, digits) ==
    LET p == 10 ^ digits
        q == (x * p) \div Ulp
        r == (x * p) % Ulp
        n == IF 2 * r > Ulp \/ (2 * r = Ulp /\ q % 2 = 1) THEN q + 1 ELSE q
    IN RoundRatio(n * Ulp, p)

\* crud.get_statistics over the readings rs.
GetStatistics(rs, start_time, end_time) ==
    LET W == {r \in rs : InPeriod(r.timestamp, start_time, end_time)}
        total == Cardinality(W)
        Metric(f, digits) ==
            [avg |-> Round(FloatDiv(SumOf(W, f), total), digits),
             min |-> Round(MinOf(W, f), digits),
             max |-> Round(MaxOf(W, f), digits)]
    IN IF total > 0
       THEN [period_start |-> start_time, period_end |-> end_time,
             total_readings |-> total,
             temperature |-> Metric("temperature", 2),
             humidity |-> Metric("humidity", 2),
             air_quality |-> Metric("air_quality_voltage", 3)]
       ELSE [period_start |-> start_time, period_end |-> end_time,
             total_readings |-> 0,
             temperature |-> [avg |-> 0, min |-> 0, max |-> 0],
             humidity |-> [avg |-> 0, min |-> 0, max |-> 0],
             air_quality |-> [avg |-> 0, min |-> 0, max |-> 0]]

\* GET /statistics?hours=h: the period is the last h hours up to now.
Statistics(h) ==
    /\ lifespan_state = "serving"
    /\ stats_response' =
          [status |-> 200,
           body |-> GetStatistics(readings, now - h * HOUR, now)]
    /\ UNCHANGED <<now, ingested, ever_ingested, swept_keys, store, bvars, mvars, fvars,
                   svars, tvars>>

(***************************************************************************)
(* The scheduler, main.run_background_tasks, and main.lifespan.            *)
(***************************************************************************)
\* Whether module app.crud has an attribute 'engine': it imports none, so
\* AsyncSession(bind=crud.engine) raises AttributeError in every cycle.
EngineDefined == FALSE

\* The crud calls the body of the 'async with' issues, in order.
CycleBody(t) ==
    <<[fn |-> "create_hourly_aggregate", key |-> PrevHour(t)]>>
    \o (IF HourOfDay(t) = 0
        THEN <<[fn |-> "create_daily_aggregate", key |-> Yesterday(t)]>>
        ELSE << >>)
    \o <<[fn |-> "cleanup_old_data", key |-> t]>>

\* The crud calls a cycle that starts at t gets to issue.
CycleCalls(t) == IF EngineDefined THEN CycleBody(t) ELSE << >>

\* Faulty variant: the exception of a cycle leaves the loop.
AfterCycleCrash(running) == "crashed"

\* 'except Exception' inside the loop, then the test of 'while': the task
\* sleeps again while the flag is set.
AfterCycle(running) == IF running THEN "sleeping" ELSE "finished"

\* Faulty variant: shutdown clears the flag and does not cancel the task.
CancelTaskNever == FALSE

\* task.cancel() in lifespan's shutdown.
CancelTask == TRUE

\* Faulty variant: the loop does not wait before a cycle.
SleepUntilNow(t) == t

\* await asyncio.sleep(3600), entered at t: the instant the task is woken.
SleepUntil(t) == t + SLEEP_INTERVAL

TaskStart ==
    /\ task = "created"
    /\ ~cancel_requested
    /\ background_tasks_running' = TRUE
    /\ task' = "sleeping"
    /\ wake_at' = SleepUntil(now)
    /\ UNCHANGED <<now, stats_response, swept_keys, ingested, ever_ingested, store, bvars, mvars, fvars, svars, cancel_requested,
                   cycle_at, cycle_trace, lifespan_state>>

\* The sleep has elapsed: one cycle, up to the next sleep.
SchedulerCycle ==
    /\ task = "sleeping"
    /\ ~cancel_requested
    /\ now >= wake_at
    /\ cycle_at' = now
    /\ cycle_trace' = CycleCalls(now)
    /\ task' = AfterCycle(background_tasks_running)
    /\ wake_at' = IF AfterCycle(background_tasks_running) = "sleeping"
                  THEN SleepUntil(now) ELSE wake_at
    /\ UNCHANGED <<now, stats_response, swept_keys, ingested, ever_ingested, store, bvars, mvars, fvars, svars,
                   background_tasks_running, cancel_requested, lifespan_state>>

\* CancelledError is thrown into the task where it waits; it is no Exception
\* and ends the task.  A task cancelled before its first step never runs.
TaskCancelled ==
    /\ task \in {"created", "sleeping"}
    /\ cancel_requested
    /\ task' = "cancelled"
    /\ wake_at' = NoTime
    /\ UNCHANGED <<now, stats_response, swept_keys, ingested, ever_ingested, store, bvars, mvars, fvars, svars,
                   background_tasks_running, cancel_requested,
                   cycle_at, cycle_trace, lifespan_state>>

\* lifespan after its yield.
Shutdown ==
    /\ lifespan_state = "serving"
    /\ lifespan_state' = "shutdown"
    /\ background_tasks_running' = FALSE
    /\ cancel_requested' = (CancelTask /\ task \in {"created", "sleeping"})
    /\ UNCHANGED <<now, stats_response, swept_keys, ingested, ever_ingested, store, bvars, mvars, fvars, svars, task, wake_at,
                   cycle_at, cycle_trace>>

(***************************************************************************)
(* The specifications.                                                     *)
(***************************************************************************)
BuilderSteps(c) ==
    \/ BuilderStats(c)
    \/ BuilderCheck(c)
    \/ BuilderInsert(c)
    \/ BuilderRefresh(c)

ManualSteps(r) ==
    \/ BuilderSteps(r)
    \/ ManualHourlyReturn(r)
    \/ ManualDailyReturn(r)
    \/ ManualError(r)
    \/ ManualClose(r)

BackfillSteps ==
    \/ BuilderSteps("bf")
    \/ BackfillNewest
    \/ BackfillHourlyReturn
    \/ BackfillDailyStart
    \/ BackfillDailyReturn
    \/ BackfillCrash
    \/ BackfillExit

SweepSteps ==
    \/ SweepHourly
    \/ SweepDaily
    \/ SweepReturn

\* The store operations in flight.
InFlight ==
    Cardinality({r \in Reqs : mpc[r] # "idle"})
    + (IF fpc # "idle" THEN 1 ELSE 0)
    + (IF spc # "idle" THEN 1 ELSE 0)

\* The store side: ingestion, one manual request at a time, the backfill
\* script and the sweeper, at most MaxInFlight of them in flight at once.
Next ==
    \/ Tick(CoarseInstants)
    \/ Ingest(OneSample, MaxReadings)
    \/ InFlight < MaxInFlight /\ ManualStart("m1")
    \/ ManualSteps("m1")
    \/ InFlight < MaxInFlight /\ BackfillOldest
    \/ BackfillSteps
    \/ InFlight < MaxInFlight /\ SweepRaw
    \/ SweepSteps

Spec == Init /\ [][Next]_vars

\* Two manual aggregation requests served concurrently.
BuildNext ==
    \/ Tick(Instants)
    \/ Ingest(Samples, MaxReadings)
    \/ \E r \in Reqs : ManualStart(r)
    \/ \E r \in Reqs : ManualSteps(r)

BuildSpec == Init /\ [][BuildNext]_vars

\* The sweeper next to the backfill script.
SweepNext ==
    \/ Tick(Instants)
    \/ Ingest(OneSample, MaxReadings)
    \/ SweepRaw
    \/ SweepSteps
    \/ BackfillOldest
    \/ BackfillSteps

SweepSpec == Init /\ [][SweepNext]_vars

\* The scheduler task and lifespan, next to ingestion.
SchedNext ==
    \/ Tick(Instants)
    \/ Ingest(Samples, MaxReadings)
    \/ TaskStart
    \/ SchedulerCycle
    \/ TaskCancelled
    \/ Shutdown

SchedSpec == Init /\ [][SchedNext]_vars

\* The event loop runs a task that is ready and the clock goes on.
FairSchedSpec ==
    SchedSpec /\ WF_vars(Tick(Instants)) /\ WF_vars(SchedulerCycle)
              /\ WF_vars(TaskStart) /\ WF_vars(TaskCancelled)

\* One manual aggregation request after the other: every builder call runs
\* from its first to its last step with no other caller in between.  No call
\* raises here, so the request never takes its 'except' branch.
SeqNext ==
    \/ Tick(Instants)
    \/ Ingest(Samples, MaxReadings)
    \/ ManualStart("m1")
    \/ BuilderSteps("m1")
    \/ ManualHourlyReturn("m1")
    \/ ManualDailyReturn("m1")
    \/ ManualClose("m1")

SeqSpec == Init /\ [][SeqNext]_vars

\* The backfill script run by itself, again and again, over readings that
\* were all ingested before its first insert.  No call raises here, so the
\* script never ends on an exception.
RerunNext ==
    \/ Tick(Instants)
    \/ fpc = "idle" /\ hourly = {} /\ daily = {} /\ Ingest(Samples, MaxReadings)
    \/ BackfillOldest
    \/ BuilderSteps("bf")
    \/ BackfillNewest
    \/ BackfillHourlyReturn
    \/ BackfillDailyStart
    \/ BackfillDailyReturn
    \/ BackfillExit

RerunSpec == Init /\ [][RerunNext]_vars

\* The backfill script run by itself, again and again, over readings that
\* were all ingested before its first insert, on a store that may fail in
\* any statement of a builder call: a failure ends the run.
AbortNext ==
    \/ Tick(Instants)
    \/ fpc = "idle" /\ hourly = {} /\ daily = {} /\ Ingest(Samples, MaxReadings)
    \/ BackfillOldest
    \/ BuilderSteps("bf")
    \/ BuilderStoreFailure("bf")
    \/ BackfillNewest
    \/ BackfillHourlyReturn
    \/ BackfillDailyStart
    \/ BackfillDailyReturn
    \/ BackfillCrash
    \/ BackfillExit

AbortSpec == Init /\ [][AbortNext]_vars

\* The backfill script next to a manual aggregation request.
FillNext ==
    \/ Tick(CoarseInstants)
    \/ Ingest(OneSample, MaxReadings)
    \/ ManualStart("m1")
    \/ ManualSteps("m1")
    \/ BackfillOldest
    \/ BackfillSteps

FillSpec == Init /\ [][FillNext]_vars

\* One manual aggregation request after the other over up to
\* MaxStatsReadings readings.
StatsNext ==
    \/ Tick(CoarseInstants)
    \/ Ingest(StatsSamples, MaxStatsReadings)
    \/ ManualStart("m1")
    \/ BuilderSteps("m1")
    \/ ManualHourlyReturn("m1")
    \/ ManualDailyReturn("m1")
    \/ ManualClose("m1")

StatsSpec == Init /\ [][StatsNext]_vars

\* The statistics endpoint next to ingestion, a manual aggregation request
\* and the sweeper.
QueryNext ==
    \/ Tick(CoarseInstants)
    \/ Ingest(OneSample, MaxReadings)
    \/ ManualStart("m1")
    \/ ManualSteps("m1")
    \/ SweepRaw
    \/ SweepSteps
    \/ \E h \in StatsHours : Statistics(h)

QuerySpec == Init /\ [][QueryNext]_vars

\* A manual aggregation request and the backfill script next to the
\* sweeper, with two readings of one day a quarter of an hour apart.
RetainNext ==
    \/ Tick(LateInstants)
    \/ Ingest(OneSample, MaxReadings)
    \/ ManualStart("m1")
    \/ ManualSteps("m1")
    \/ BackfillOldest
    \/ BackfillSteps
    \/ SweepRaw
    \/ SweepSteps

RetainSpec == Init /\ [][RetainNext]_vars

\* A manual aggregation request and the backfill script over readings one
\* of which is stamped exactly at the start of an hour and of a day.
BoundaryNext ==
    \/ Tick(BoundaryInstants)
    \/ Ingest(OneSample, MaxReadings)
    \/ ManualStart("m1")
    \/ ManualSteps("m1")
    \/ BackfillOldest
    \/ BackfillSteps

BoundarySpec == Init /\ [][BoundaryNext]_vars

(***************************************************************************)
(* Properties.                                                             *)
(***************************************************************************)
\* The stored aggregates of one window.
RowsFor(tier, table, key) == {a \in table : KeyOf(tier, a) = key}

\* The readings of the window a call of caller c is about.
WindowReadings(c) ==
    {r \in readings : /\ r.timestamp >= bkey[c]
                      /\ r.timestamp < bkey[c] + WindowLen(btier[c])}

\* C1: in every reachable state the hourly table holds at most one aggregate
\* per hour_start and the daily table at most one aggregate per date, whatever
\* the interleaving of manual triggers, backfill runs, ingestion and sweeps.
C1_OneAggregatePerWindow ==
    /\ \A a, b \in hourly : a.hour_start = b.hour_start => a = b
    /\ \A a, b \in daily : a.date = b.date => a = b

\* A second insert for a stored window was refused by the unique constraint.
C1_Witness ==
    \E c \in Callers :
        /\ boutcome[c] = "IntegrityError"
        /\ Cardinality(RowsFor(btier[c], Table(btier[c]), bkey[c])) = 1

\* C2: with one caller at a time, the call that finds no aggregate of its
\* populated window inserts exactly one and returns it, and a call made while
\* the aggregate of its window is stored passes the statistics query and the
\* existence check, writes nothing, leaves that one aggregate and returns
\* the no-row AlreadyExists outcome without raising; hourly and daily alike.
C2_SequentialCalls ==
    [][\A c \in Reqs :
         LET before == RowsFor(btier[c], Table(btier[c]), bkey[c])
             after == RowsFor(btier[c],
                              IF btier[c] = "hourly" THEN hourly' ELSE daily',
                              bkey[c])
         IN /\ (bpc[c] = "insert" /\ bpc'[c] # "insert") =>
                  /\ before = {}
                  /\ bpc'[c] = "refresh"
                  /\ boutcome'[c] = "Created"
                  /\ after = {bret'[c]}
            /\ (bpc[c] = "refresh" /\ bpc'[c] # "refresh") =>
                  /\ bpc'[c] = "returned"
                  /\ bret'[c] = bret[c]
                  /\ after = {bret[c]}
            /\ (before # {} /\ bpc[c] = "stats" /\ bpc'[c] # "stats") =>
                  /\ bpc'[c] = "check"
                  /\ store' = store
            /\ (before # {} /\ bpc[c] = "check" /\ bpc'[c] # "check") =>
                  /\ bpc'[c] = "returned"
                  /\ boutcome'[c] = "AlreadyExists"
                  /\ bret'[c] = None
                  /\ store' = store
                  /\ Cardinality(after) = 1
      ]_vars

\* A request whose hourly call and whose daily call both were second calls.
C2_Witness ==
    /\ mpc["m1"] = "daily"
    /\ hourly_result["m1"] = None
    /\ Cardinality(RowsFor("hourly", hourly, PrevHour(mnow["m1"]))) = 1
    /\ bpc["m1"] = "returned"
    /\ boutcome["m1"] = "AlreadyExists"
    /\ Cardinality(RowsFor("daily", daily, bkey["m1"])) = 1

\* C3: of two concurrent calls for the same populated window, the caller that
\* did not insert ends with the no-row AlreadyExists outcome, not an error.
C3_LoserSeesAlreadyExists ==
    \A c \in Reqs :
        ( /\ bpc[c] \in {"returned", "raised"}
          /\ boutcome[c] # "Created"
          /\ RowsFor(btier[c], Table(btier[c]), bkey[c]) # {} )
        => boutcome[c] = "AlreadyExists"

\* C4: a call whose window holds no reading ends at its statistics query with
\* the no-row Empty outcome, without raising, and leaves the three tables
\* as they were.
C4_EmptyWindow ==
    [][\A c \in Callers :
         (bpc[c] = "stats" /\ bpc'[c] # "stats" /\ WindowReadings(c) = {})
         => /\ bpc'[c] = "returned"
            /\ boutcome'[c] = "Empty"
            /\ bret'[c] = None
            /\ store' = store
      ]_vars

\* A call on an empty window has returned while the store is not empty.
C4_Witness ==
    \E c \in Callers :
        /\ bpc[c] = "returned"
        /\ boutcome[c] = "Empty"
        /\ WindowReadings(c) = {}
        /\ readings # {}

C6_OtherTiersAttempted ==
    spc = "raised" => sattempted = {"raw", "hourly", "daily"}

\* C7: every scheduler cycle calls create_hourly_aggregate for the previous
\* hour, and create_daily_aggregate for the previous day exactly when the
\* cycle starts in hour 0.
C7_CycleBuilds ==
    cycle_at # NoTime =>
        /\ \E i \in DOMAIN cycle_trace :
              cycle_trace[i] = [fn |-> "create_hourly_aggregate",
                                key |-> FloorHour(cycle_at) - HOUR]
        /\ (HourOfDay(cycle_at) = 0) <=>
              (\E i \in DOMAIN cycle_trace :
                  cycle_trace[i] = [fn |-> "create_daily_aggregate",
                                    key |-> FloorDay(cycle_at) - DAY])

\* C8: every scheduler cycle calls cleanup_old_data, as its last call, after
\* the build calls.
C8_CycleSweepsLast ==
    cycle_at # NoTime =>
        /\ Len(cycle_trace) > 0
        /\ cycle_trace[Len(cycle_trace)].fn = "cleanup_old_data"
        /\ \A i \in 1 .. (Len(cycle_trace) - 1) :
              cycle_trace[i].fn # "cleanup_old_data"

C10_NoCycleAfterShutdown ==
    [][lifespan_state = "shutdown" => cycle_at' = cycle_at]_vars

\* Shutdown has arrived while the sleep of the task had already elapsed.
C10_Witness ==
    /\ lifespan_state = "shutdown"
    /\ task = "sleeping"
    /\ cancel_requested
    /\ now >= wake_at

\* Every stored reading lies in the window of a stored hourly and of a stored
\* daily aggregate.
Covered ==
    \A r \in readings :
        /\ RowsFor("hourly", hourly, FloorHour(r.timestamp)) # {}
        /\ RowsFor("daily", daily, FloorDay(r.timestamp)) # {}

\* The backfill script after a complete run over the stored readings: before
\* or inside a further run that has created nothing.
Rerun ==
    /\ readings # {}
    /\ Covered
    /\ fpc # "crashed"
    /\ bpc["bf"] # "raised"
    /\ bret["bf"] = None
    /\ hourly_created = 0
    /\ daily_created = 0

\* C11: a backfill run over the stored readings ends with an aggregate for
\* every populated hour and day; every run after it, over the same readings,
\* leaves both aggregate tables exactly as they are and reports zero created
\* aggregates in both tiers.
C11_BackfillRerun ==
    [][/\ (fpc' = "done" => Covered')
       /\ (fpc = "done" /\ fpc' = "idle" /\ readings # {}) => Rerun'
       /\ Rerun => (Rerun' /\ hourly' = hourly /\ daily' = daily)
      ]_vars

\* A second run has finished: it has skipped windows and created none.
C11_Witness ==
    /\ Rerun
    /\ fpc = "done"
    /\ hourly_skipped > 0
    /\ daily_skipped > 0

\* C12: a backfill run over stored readings ends only after one builder call
\* for every hour boundary and one for every day boundary between the oldest
\* and the newest reading: at its end, created + skipped equals the number
\* of boundaries in each tier.
C12_BackfillVisitsEveryBoundary ==
    (fpc \in {"done", "crashed"} /\ oldest_time # NoTime /\ newest_time # NoTime)
    => /\ hourly_created + hourly_skipped
             = HourBuckets(oldest_time, newest_time)
       /\ daily_created + daily_skipped
             = DayBuckets(oldest_time, newest_time)

\* The readings now stored in the window of the aggregate a of a tier.
ReadingsOf(tier, a) ==
    {r \in readings : /\ r.timestamp >= KeyOf(tier, a)
                      /\ r.timestamp < KeyOf(tier, a) + WindowLen(tier)}

\* C13, as stated: in every state the reading_count of each stored aggregate
\* is the number of readings now stored in its window.
C13_CountMatchesStoredReadings ==
    /\ \A a \in hourly :
          a.reading_count = Cardinality(ReadingsOf("hourly", a))
    /\ \A a \in daily :
          a.reading_count = Cardinality(ReadingsOf("daily", a))

\* C13, amended: the count a builder call reads is the number of readings
\* stored in its window at its statistics query, and the aggregate it inserts
\* carries exactly that count, which is at least 1.
C13_CountAtStatisticsQuery ==
    [][\A c \in Callers :
         /\ (bpc[c] = "stats" /\ bpc'[c] # "stats") =>
               bstats'[c].count = Cardinality(WindowReadings(c))
         /\ (bpc[c] = "insert" /\ bpc'[c] = "refresh") =>
               /\ bret'[c].reading_count = bstats[c].count
               /\ bret'[c].reading_count >= 1
               /\ bret'[c] \in (IF btier[c] = "hourly" THEN hourly' ELSE daily')
      ]_vars

\* An hourly aggregate of two readings is stored and the readings are gone.
C13_Witness ==
    /\ readings = {}
    /\ \E a \in hourly : a.reading_count = 2

\* C14: at the step that commits an aggregate, its reading_count is the
\* number of readings stored at that moment with timestamp in its window.
C14_CountExactAtCommit ==
    [][\A c \in Callers :
         (bpc[c] = "insert" /\ bpc'[c] = "refresh") =>
            bret'[c].reading_count =
               Cardinality({r \in readings' :
                              /\ r.timestamp >= bkey[c]
                              /\ r.timestamp < bkey[c] + WindowLen(btier[c])})
      ]_vars

\* C15: a stored aggregate is in the table of the next state unchanged,
\* unless the step is the delete of its tier in a sweep and the aggregate is
\* past the retention of the tier; no step replaces it by another row of the
\* same window.
C15_WriteOnce ==
    [][/\ \A a \in hourly :
             a \notin hourly' =>
                /\ spc = "hourly" /\ spc' = "daily"
                /\ a.hour_start < HourlyCutoff(snow)
                /\ RowsFor("hourly", hourly', a.hour_start) = {}
       /\ \A a \in daily :
             a \notin daily' =>
                /\ spc = "daily" /\ spc' = "completed"
                /\ a.date < DailyCutoff(snow)
                /\ RowsFor("daily", daily', a.date) = {}
      ]_vars

\* A later build for a stored window has ended and the aggregate, created at
\* an earlier instant, is still stored.
C15_Witness ==
    \E c \in Callers :
        /\ bpc[c] = "returned"
        /\ boutcome[c] = "AlreadyExists"
        /\ \E a \in RowsFor(btier[c], Table(btier[c]), bkey[c]) :
              a.created_at < now

\* C16: every stored hour_start is a whole hour and every stored date a whole
\* day, and two distinct aggregates of a tier have keys at least one window
\* apart, so their windows do not overlap.
C16_WindowsDisjoint ==
    /\ \A a \in hourly : a.hour_start % HOUR = 0
    /\ \A a \in daily : a.date % DAY = 0
    /\ \A a, b \in hourly :
          a # b => \/ a.hour_start + HOUR <= b.hour_start
                   \/ b.hour_start + HOUR <= a.hour_start
    /\ \A a, b \in daily :
          a # b => \/ a.date + DAY <= b.date
                   \/ b.date + DAY <= a.date

\* Two hourly and two daily aggregates are stored.
C16_Witness ==
    /\ Cardinality(hourly) >= 2
    /\ Cardinality(daily) >= 2

\* The values of a metric over a set of readings.
ValuesOf(W, f) == {r[f] : r \in W}

\* Whether lo and hi are the least and the largest value of metric f over W.
IsMinMax(W, f, lo, hi) ==
    /\ lo \in ValuesOf(W, f) /\ \A v \in ValuesOf(W, f) : lo <= v
    /\ hi \in ValuesOf(W, f) /\ \A v \in ValuesOf(W, f) : v <= hi

\* C17: the aggregate a builder call inserts has, for each metric, the least
\* and the largest value over the readings stored in its window, the Float
\* sum of the values divided by their number as avg, and their number as
\* reading_count; temperatures 20, 22, 24 give avg 22, min 20, max 24 and
\* count 3.
C17_StatisticsOfWindow ==
    [][\A c \in Callers :
         (bpc[c] = "insert" /\ bpc'[c] = "refresh") =>
            LET W == WindowReadings(c)
                a == bret'[c]
                n == Cardinality(W)
            IN /\ a.reading_count = n
               /\ IsMinMax(W, "temperature", a.temp_min, a.temp_max)
               /\ IsMinMax(W, "humidity", a.humidity_min, a.humidity_max)
               /\ IsMinMax(W, "air_quality_voltage",
                           a.aq_voltage_min, a.aq_voltage_max)
               /\ a.temp_avg = FloatDiv(SumOf(W, "temperature"), n)
               /\ a.humidity_avg = FloatDiv(SumOf(W, "humidity"), n)
               /\ a.aq_voltage_avg
                     = FloatDiv(SumOf(W, "air_quality_voltage"), n)
               /\ (n = 3 /\ ValuesOf(W, "temperature")
                              = {Float(20), Float(22), Float(24)})
                  => /\ a.temp_avg = Float(22)
                     /\ a.temp_min = Float(20)
                     /\ a.temp_max = Float(24)
      ]_vars

\* The hourly aggregate of three readings of 20, 22 and 24 degrees is stored.
C17_Witness ==
    \E a \in hourly :
        /\ a.reading_count = 3
        /\ a.temp_avg = Float(22)
        /\ a.temp_min = Float(20)
        /\ a.temp_max = Float(24)

\* C18: in every stored aggregate, for each of the three metrics,
\* min <= avg <= max.
C18_AvgWithinMinMax ==
    \A a \in hourly \cup daily :
        /\ a.temp_min <= a.temp_avg /\ a.temp_avg <= a.temp_max
        /\ a.humidity_min <= a.humidity_avg
        /\ a.humidity_avg <= a.humidity_max
        /\ a.aq_voltage_min <= a.aq_voltage_avg
        /\ a.aq_voltage_avg <= a.aq_voltage_max

\* C19: the delete of a tier in a sweep started at snow removes nothing but
\* rows of that tier older than its retention: every reading, hourly
\* aggregate and daily aggregate not past its retention is in its table
\* unchanged after the step, and the tables of the other tiers are untouched.
C19_SweepKeepsUnexpired ==
    [][/\ (spc = "idle" /\ spc' # "idle") =>
             /\ \A r \in readings :
                   r.timestamp >= snow' - RAW_DATA_RETENTION_DAYS * DAY
                   => r \in readings'
             /\ readings' \subseteq readings
             /\ hourly' = hourly /\ daily' = daily
       /\ (spc = "hourly" /\ spc' # "hourly") =>
             /\ \A a \in hourly :
                   a.hour_start >= snow - HOURLY_DATA_RETENTION_DAYS * DAY
                   => a \in hourly'
             /\ hourly' \subseteq hourly
             /\ readings' = readings /\ daily' = daily
       /\ (spc = "daily" /\ spc' # "daily") =>
             /\ \A a \in daily :
                   a.date >= snow - DAILY_DATA_RETENTION_DAYS * DAY
                   => a \in daily'
             /\ daily' \subseteq daily
             /\ readings' = readings /\ hourly' = hourly
      ]_vars

\* The raw delete has removed a reading and has kept the reading that is
\* exactly one day old.
C19_Witness ==
    /\ spc = "hourly"
    /\ sdeleted.raw = 1
    /\ \E r \in readings : r.timestamp = snow - RAW_DATA_RETENTION_DAYS * DAY

\* C20: the step at which a delete of a sweep fails changes no table, and
\* when the hourly or the daily delete has failed the readings the raw
\* delete removed are still gone: no reading older than the raw retention is
\* stored.
C20_CommittedDeletesStay ==
    [][(spc # "raised" /\ spc' = "raised") =>
          /\ store' = store
          /\ sdeleted' = sdeleted
          /\ "hourly" \in sattempted' =>
                \A r \in readings' : r.timestamp >= RawCutoff(snow')
      ]_vars

\* The hourly delete has failed after the raw delete had removed readings.
C20_Witness ==
    /\ spc = "raised"
    /\ sattempted = {"raw", "hourly"}
    /\ sdeleted.raw > 0
    /\ \A r \in readings : r.timestamp >= RawCutoff(snow)

\* C21: a request answered with status 200 reports a tier as 'created'
\* exactly when its call inserted a row of that tier, and reports a tier as
\* 'already exists' only when an aggregate of that tier's window is stored.
C21_ReportMatchesStore ==
    \A r \in Reqs :
        (mpc[r] = "responded" /\ response[r].status = 200) =>
            /\ response[r].hourly = "created"
                  <=> (hourly_result[r] # None /\ hourly_result[r] \in hourly)
            /\ response[r].daily = "created"
                  <=> (daily_result[r] # None /\ daily_result[r] \in daily)
            /\ response[r].hourly = "already exists" =>
                  RowsFor("hourly", hourly, PrevHour(mnow[r])) # {}
            /\ response[r].daily = "already exists" =>
                  RowsFor("daily", daily, Yesterday(mnow[r])) # {}

\* C22: no step of a manual aggregation request removes a row of the three
\* tables or touches the readings; a row it adds is a single hourly
\* aggregate keyed floor(now, hour) - 1h or a single daily aggregate keyed
\* floor(now, day) - 1 day, now being the instant the request read, and it
\* is then the only aggregate of that window.
C22_ManualAddsOnlyItsWindows ==
    [][\A r \in Reqs :
         (bpc'[r] # bpc[r] \/ mpc'[r] # mpc[r]) =>
            LET hkey == mnow[r] - (mnow[r] % HOUR) - HOUR
                dkey == mnow[r] - (mnow[r] % DAY) - DAY
            IN /\ readings' = readings
               /\ hourly \subseteq hourly'
               /\ daily \subseteq daily'
               /\ Cardinality(hourly' \ hourly) + Cardinality(daily' \ daily)
                     <= 1
               /\ \A a \in hourly' \ hourly :
                     /\ a.hour_start = hkey
                     /\ RowsFor("hourly", hourly', hkey) = {a}
               /\ \A a \in daily' \ daily :
                     /\ a.date = dkey
                     /\ RowsFor("daily", daily', dkey) = {a}
      ]_vars

\* A request has created the aggregate of the previous hour and the one of
\* the previous day, and every reading is still stored.
C22_Witness ==
    \E r \in Reqs :
        /\ mpc[r] = "responded"
        /\ response[r].status = 200
        /\ response[r].hourly = "created"
        /\ response[r].daily = "created"
        /\ hourly_result[r] \in hourly
        /\ daily_result[r] \in daily
        /\ Cardinality(readings) = ingested

C24_NoEmptyAggregate ==
    [][/\ \A a \in hourly' \cup daily' : a.reading_count >= 1
       /\ \A c \in Callers :
             /\ (bpc[c] = "stats" /\ bpc'[c] = "check") =>
                   /\ WindowReadings(c) # {}
                   /\ bstats'[c].count >= 1
             /\ (bpc[c] # "check" /\ bpc'[c] = "check") => bpc[c] = "stats"
             /\ (bpc[c] # "insert" /\ bpc'[c] = "insert") => bpc[c] = "check"
             /\ (bpc[c] # "refresh" /\ bpc'[c] = "refresh") =>
                   /\ bpc[c] = "insert"
                   /\ bstats[c].count >= 1
      ]_vars

\* An aggregate is stored and a call on a window without readings has
\* returned without a row.
C24_Witness ==
    /\ \E a \in hourly \cup daily : a.reading_count >= 1
    /\ \E c \in Callers :
          /\ bpc[c] = "returned"
          /\ boutcome[c] = "Empty"
          /\ RowsFor(btier[c], Table(btier[c]), bkey[c]) = {}

\* C25: a stored reading leaves the table only at the raw delete of a sweep
\* and only when older than the raw retention; no step changes a field of a
\* stored reading; the steps of the builders, of a manual request and of the
\* backfill leave the readings as they are; a step that adds a reading is an
\* ingestion, which adds exactly one row, with a rowid no stored reading has
\* and the current time as timestamp, and keeps every stored reading.
C25_ReadingsImmutable ==
    [][/\ \A r \in readings :
             r \notin readings' =>
                /\ spc = "idle" /\ spc' # "idle"
                /\ r.timestamp < now - RAW_DATA_RETENTION_DAYS * DAY
       /\ \A r \in readings : \A q \in readings' : q.id = r.id => q = r
       /\ (\E c \in Callers : bpc'[c] # bpc[c]) => readings' = readings
       /\ (\E r \in Reqs : mpc'[r] # mpc[r]) => readings' = readings
       /\ fpc' # fpc => readings' = readings
       /\ ~(readings' \subseteq readings) =>
             /\ ingested' = ingested + 1
             /\ readings \subseteq readings'
             /\ Cardinality(readings' \ readings) = 1
             /\ \A q \in readings' \ readings : q.timestamp = now
      ]_vars

\* Every ingested reading is still stored after a manual request and a
\* backfill run have created aggregates from them.
C25_Witness ==
    /\ ingested = MaxReadings
    /\ Cardinality(readings) = ingested
    /\ mpc["m1"] = "responded"
    /\ response["m1"].status = 200
    /\ response["m1"].hourly = "created"
    /\ fpc = "done"
    /\ daily_created > 0

C27_SweepReturnsCounts ==
    spc = "completed" =>
        SweepResult(sdeleted) = [raw_deleted |-> sdeleted.raw,
                                 hourly_deleted |-> sdeleted.hourly,
                                 daily_deleted |-> sdeleted.daily]

\* C28: once the scheduler cycle that follows a completed hour has run, the
\* hour before the cycle's start has a stored hourly aggregate if a reading
\* of that hour is stored (the readings of the hour are still there: no
\* sweep has removed them).
C28_CompletedHourAggregated ==
    ( /\ cycle_at # NoTime
      /\ \E r \in readings :
            /\ r.timestamp >= FloorHour(cycle_at) - HOUR
            /\ r.timestamp < FloorHour(cycle_at) )
    => \E a \in hourly : a.hour_start = FloorHour(cycle_at) - HOUR

\* C29, as stated: the window of every stored aggregate had fully elapsed
\* when the aggregate was created, and no stored reading of its window is
\* later than its creation.
C29_WindowsElapsedAtCreation ==
    /\ \A a \in hourly :
          /\ a.hour_start + HOUR <= a.created_at
          /\ \A r \in ReadingsOf("hourly", a) : r.timestamp <= a.created_at
    /\ \A a \in daily :
          /\ a.date + DAY <= a.created_at
          /\ \A r \in ReadingsOf("daily", a) : r.timestamp <= a.created_at

\* C29, amended: an aggregate is created at the current time for a window
\* that has begun; the window of an aggregate a manual request creates has
\* fully elapsed at its creation, and had elapsed when the request read the
\* clock.
C29_ManualWindowsElapsed ==
    [][\A c \in Callers :
         (bpc[c] = "insert" /\ bpc'[c] = "refresh") =>
            LET a == bret'[c]
                window_end == KeyOf(btier[c], a) + WindowLen(btier[c])
            IN /\ a.created_at = now
               /\ KeyOf(btier[c], a) <= a.created_at
               /\ c \in Reqs => /\ window_end <= mnow[c]
                                /\ window_end <= a.created_at
      ]_vars

\* A manual request has created the aggregate of an elapsed hour, and the
\* backfill has just created the aggregate of the hour the clock is in.
C29_Witness ==
    /\ mpc["m1"] = "responded"
    /\ response["m1"].status = 200
    /\ response["m1"].hourly = "created"
    /\ hourly_result["m1"].hour_start + HOUR <= hourly_result["m1"].created_at
    /\ bpc["bf"] = "refresh"
    /\ btier["bf"] = "hourly"
    /\ bret["bf"].hour_start <= now
    /\ now < bret["bf"].hour_start + HOUR

\* The readings ever ingested with timestamp in the window of a builder
\* call of caller c.
EverInWindow(c) ==
    {r \in ever_ingested : /\ r.timestamp >= bkey[c]
                           /\ r.timestamp < bkey[c] + WindowLen(btier[c])}

\* C30, as stated: a daily aggregate is created with the number of the
\* readings ever ingested with timestamp in its day as reading_count.
C30_DailyCountsEveryIngested ==
    [][\A c \in Callers :
         (bpc[c] = "insert" /\ bpc'[c] = "refresh" /\ btier[c] = "daily") =>
            bret'[c].reading_count = Cardinality(EverInWindow(c))
      ]_vars

\* C30, amended: at the step that creates a daily aggregate, a reading ever
\* ingested in its day is missing from the store only if older than the raw
\* retention, and the aggregate counts readings of its day that were stored
\* at its statistics query: at least one and at most those ever ingested.
C30_OnlySweptReadingsMissing ==
    [][\A c \in Callers :
         (bpc[c] = "insert" /\ bpc'[c] = "refresh" /\ btier[c] = "daily") =>
            /\ \A r \in EverInWindow(c) :
                  r \notin readings =>
                     r.timestamp < now - RAW_DATA_RETENTION_DAYS * DAY
            /\ bret'[c].reading_count >= 1
            /\ bret'[c].reading_count <= Cardinality(EverInWindow(c))
      ]_vars

\* A daily aggregate has been created that counts one reading of its day
\* while two were ingested in that day, one of them swept since.
C30_Witness ==
    \E c \in Callers :
        /\ bpc[c] = "refresh"
        /\ btier[c] = "daily"
        /\ bret[c].reading_count = 1
        /\ Cardinality(EverInWindow(c)) = 2
        /\ Cardinality(WindowReadings(c)) = 1

\* C31: no stored aggregate has a window key that a sweep has deleted an
\* aggregate of: once swept, the aggregate of a window is never created
\* again, by a manual request or by the backfill.
C31_SweptKeyNeverRebuilt ==
    /\ \A a \in hourly : a.hour_start \notin swept_keys.hourly
    /\ \A a \in daily : a.date \notin swept_keys.daily

\* The window keys of a tier from time 0 to past the instants of
\* BoundaryInstants.
AlignedKeys(tier) ==
    {n * WindowLen(tier) : n \in 0 .. ((2 * DAY) \div WindowLen(tier))}

\* C32: the WHERE clause of the statistics query puts the timestamp of every
\* stored reading in exactly one hour-aligned and exactly one day-aligned
\* window; the statistics query of a call counts the readings stamped from
\* its window_start on and before its window_end, so a reading stamped
\* exactly at window_end is left out by that call and is counted by the call
\* for the window that starts there.
C32_HalfOpenWindows ==
    [][/\ \A r \in readings' : \A tier \in Tiers :
             Cardinality({k \in AlignedKeys(tier) :
                            InWindow(r.timestamp, k, k + WindowLen(tier))})
                = 1
       /\ \A c \in Callers :
             (bpc[c] = "stats" /\ bpc'[c] # "stats") =>
                LET window_end == bkey[c] + WindowLen(btier[c])
                    from_start == {r \in readings : r.timestamp >= bkey[c]}
                    at_end == {r \in readings : r.timestamp = window_end}
                    past_end == {r \in readings : r.timestamp > window_end}
                IN bstats'[c].count
                      = Cardinality(from_start) - Cardinality(at_end)
                        - Cardinality(past_end)
      ]_vars

\* The statistics query for the hour that ends at midnight has counted the
\* reading of 23:30 and not the one stamped at midnight, which the stored
\* aggregate of the hour starting at midnight has counted.
C32_Witness ==
    \E c \in Callers :
        /\ bpc[c] = "check"
        /\ btier[c] = "hourly"
        /\ bstats[c].count = 1
        /\ \E r \in readings : r.timestamp = bkey[c] + HOUR
        /\ \E r \in readings : r.timestamp = bkey[c] + 1800
        /\ \E a \in hourly : /\ a.hour_start = bkey[c] + HOUR
                             /\ a.reading_count = 1

\* The window keys of a tier that hold a stored reading.
PopulatedKeys(tier) ==
    {IF tier = "hourly" THEN FloorHour(r.timestamp) ELSE FloorDay(r.timestamp) :
       r \in readings}

\* The rows of a tier with the creation instant left out.
Contents(tier) ==
    {[a EXCEPT !.created_at = 0] : a \in Table(tier)}

\* What one uninterrupted backfill run over the stored readings leaves in an
\* empty table of a tier: one row per populated window, in window order, with
\* the statistics of the readings of the window.
UninterruptedRun(tier) ==
    {[NewAggregate(tier, {}, k,
                   StatsQuery(readings, k, k + WindowLen(tier)), 0)
        EXCEPT !.id = Cardinality({j \in PopulatedKeys(tier) : j <= k})] :
       k \in PopulatedKeys(tier)}

\* C33: the aggregates a backfill run has committed stay stored when a store
\* failure aborts the run, and through every later run; at the end of a run
\* that completes over the same readings, after any number of aborted runs,
\* both tables hold the rows one uninterrupted run would have produced.
C33_AbortedBackfillRerun ==
    [][/\ hourly \subseteq hourly'
       /\ daily \subseteq daily'
       /\ (fpc = "done" /\ readings # {}) =>
             /\ Contents("hourly") = UninterruptedRun("hourly")
             /\ Contents("daily") = UninterruptedRun("daily")
      ]_vars

\* A run has completed that found the hourly aggregate of an earlier run,
\* aborted inside its hourly loop, in place and created the remaining hourly
\* aggregate and the daily ones.
C33_Witness ==
    /\ fpc = "done"
    /\ hourly_created >= 1 /\ hourly_skipped >= 1
    /\ Cardinality(hourly) > hourly_created
    /\ daily_created = Cardinality(daily)
    /\ daily_created >= 1

\* C34: the scheduler alternates waiting and one cycle.  The task waits one
\* full interval from its first step; a cycle begins only from the waiting
\* task once that wait has elapsed, is over before anything else runs, and is
\* followed by a new full wait that starts at its end; so no cycle runs
\* within the first interval after startup and two cycles are at least one
\* interval apart.
C34_IdleRunningAlternate ==
    [][/\ (task = "created" /\ task' = "sleeping") =>
             /\ cycle_at' = NoTime
             /\ wake_at' = now + SLEEP_INTERVAL
       /\ (cycle_at' # cycle_at) =>
             /\ task = "sleeping"
             /\ now >= wake_at
             /\ cycle_at' = now
             /\ cycle_at' >= StartTime + SLEEP_INTERVAL
             /\ (cycle_at # NoTime => cycle_at' >= cycle_at + SLEEP_INTERVAL)
             /\ task' \in {"sleeping", "finished"}
             /\ (task' = "sleeping" => wake_at' = cycle_at' + SLEEP_INTERVAL)
      ]_vars

\* The task waits again after a cycle that was not its first possible one.
C34_Witness ==
    /\ cycle_at # NoTime
    /\ cycle_at >= StartTime + 2 * SLEEP_INTERVAL
    /\ task = "sleeping"
    /\ now < wake_at
====
